---- MODULE Spec2Model ----
(***************************************************************************)
(* Service-lifecycle orchestrator of the Covenantrix desktop shell         *)
(* (Electron main process, class CovenantrixApp, current version of       *)
(* main.js).  One chain = one invocation of autoStartAndConnect, started  *)
(* by the 'ready-to-show' event of a window.  Every action is one turn of *)
(* the single-threaded event loop: the code that runs between two         *)
(* suspension points (await of an HTTP response, of a timer, of a dialog).*)
(***************************************************************************)
EXTENDS Integers, Sequences, FiniteSets, TLC

\* ---- bounds ----
MaxChains == 2      \* windows created (each starts one chain) in a run
MaxProcs == 2       \* child processes spawned in a run
\* maxAttempts of the two calls of connectToExistingService.  The code passes
\* 20 after a launch and 10 from the dialog's 'Retry Connection'; the loop
\* body does not read the count, so the model runs the same loop with
\* smaller counts that keep their order.
PatientAttempts == 3
RetryAttempts == 2
MaxTrialAttempts == 3   \* largest maxAttempts of a trial run

\* ---- times of the code, in units of 1000 ms ----
PollInterval == 1       \* setTimeout(resolve, 1000) of the catch block
ProbeTimeoutLong == 2 * PollInterval
ProbeTimeout == 1       \* { timeout: 1000 } of connectToExistingService
PrecheckTimeout == 2    \* { timeout: 2000 } of the pre-check

Chains == 1..MaxChains
Procs == 1..MaxProcs
NoWindow == 0           \* this.mainWindow === null
NoProcess == 0          \* this.pythonProcess === null
External == 0           \* kill target: a backend this application did not spawn
Targets == {External} \cup Procs

\* outcome of one GET /health as axios reports it:
\*   ok200    - resolved, status 200
\*   other2xx - resolved, status 2xx other than 200
\*   err      - rejected (refused, timeout, status outside 2xx)
Responses == {"ok200", "other2xx", "err"}

\* files the launch code looks at
BundledExe == "covenantrix-service"
VenvPython == "venv/python"
ServiceScript == "core-rag-service/service_main.py"
Files == {BundledExe, VenvPython, ServiceScript}
NULL == "null"
ServiceUrl == "http://127.0.0.1:8080"

VARIABLES
    mainWindow,     \* this.mainWindow: NoWindow or the id of the open window
    pythonProcess,  \* this.pythonProcess: NoProcess or a spawned process id
    chain,          \* per chain: position and history of autoStartAndConnect
    procs,          \* per spawned process: status, kind, spawning chain
    nspawned,       \* number of spawn() calls so far
    kills,          \* per target: number of kill() calls it received
    fs,             \* set of files that exist on disk
    isPackaged,     \* app.isPackaged
    darwin,         \* process.platform === 'darwin'
    extRunning,     \* a backend not started by this application is listening
    appState,       \* "starting", "running" or "quit"
    serviceUrl,     \* this.serviceUrl
    bridge,         \* the UI's current call of an ipcMain handler
    trial,          \* one run of connectToExistingService next to the
                    \* test script's testServiceConnection, same responses
    tests           \* one run of the test script's runTests

vars == <<mainWindow, pythonProcess, chain, procs, nspawned, kills, fs,
          isPackaged, darwin, extRunning, appState, serviceUrl, bridge, trial,
          tests>>
\* what no handler of the orchestrator assigns
env == <<fs, isPackaged, darwin, serviceUrl>>
\* what only the handlers outside the orchestrator assign
aux == <<bridge, trial, tests>>

\* ---- helpers ----
Last(s) == s[Len(s)]

NoChain ==
    [pc |-> "idle", mode |-> "none", i |-> 0, max |-> 0, lastProbe |-> "none",
     sent |-> 0, to |-> NoWindow, url |-> "none", spawns |-> 0,
     choice |-> -1,
     hist |-> <<"Idle">>]

NoProc == [status |-> "none", kind |-> "none", by |-> 0]

\* no handler call of the UI yet
NoBridge ==
    [pc |-> "idle", op |-> "none", ready |-> FALSE, url |-> "none",
     outcome |-> "none", result |-> "none"]

\* no trial run
NoTrial ==
    [max |-> 0, resp |-> <<>>, open |-> <<>>, late |-> <<>>, done |-> TRUE,
     connect |-> "none", test |-> "none"]

\* a child process of the test script that was not spawned
NoTestProc == [status |-> "none", kills |-> 0]

\* runTests is not running
NoTests ==
    [pc |-> "off", phase |-> "none", fs |-> {}, ext |-> FALSE,
     proc |-> [ph \in {"bundled", "venv"} |-> NoTestProc],
     working |-> [ph \in {"bundled", "venv"} |-> FALSE]]

\* ConnectionState of a chain: the last state it entered
State(c) == Last(chain[c].hist)

\* a probe or launch sequence of chain c is in progress
InProgress(c) == chain[c].pc \in {"precheck", "waiting", "sleep"}

Live(p) == procs[p].status = "live"

\* what GET /health can answer now: only a listening backend answers
HealthResponses ==
    IF extRunning \/ (\E p \in Procs : Live(p)) THEN Responses ELSE {"err"}

\* ---- pure functions of the code ----
StatusIs200Any(r) == r \in {"ok200", "other2xx"}
\* response.status === 200
StatusIs200(r) == r = "ok200"

FileExists(f) == f \in fs

getPythonExecutablePathUnchecked == BundledExe
\* the path of the bundled executable, not checked in an installation,
\* checked with existsSync in a development checkout
getPythonExecutablePath ==
    IF isPackaged
    THEN BundledExe
    ELSE IF ~FileExists(BundledExe) THEN NULL ELSE BundledExe

VenvPrereqsOkUnchecked == TRUE
\* the two existsSync checks of startPythonServiceVenvFallback
VenvPrereqsOk == FileExists(VenvPython) /\ FileExists(ServiceScript)

LaunchPlanVenvFirst ==
    IF VenvPrereqsOk THEN "venv"
    ELSE IF FileExists(BundledExe) THEN "bundled" ELSE "none"
\* which artifact startPythonService spawns: "bundled", "venv" or "none"
LaunchPlan ==
    LET executablePath == getPythonExecutablePath IN
    IF executablePath = NULL
    THEN IF VenvPrereqsOk THEN "venv" ELSE "none"
    ELSE IF FileExists(executablePath) THEN "bundled" ELSE "none"

\* return value of startPythonService
Started == LaunchPlan # "none"

KillTargetsAny(h) == IF h # NoProcess THEN {h} ELSE {External}
\* the processes disconnectFromService sends kill to when the handle is h
KillTargets(h) == IF h # NoProcess THEN {h} ELSE {}

HandleAfterDisconnectKept(h) == h
\* this.pythonProcess after disconnectFromService found the handle h
HandleAfterDisconnect(h) == IF h # NoProcess THEN NoProcess ELSE h

TypeOK ==
    /\ mainWindow \in {NoWindow} \cup Chains
    /\ pythonProcess \in {NoProcess} \cup Procs
    /\ nspawned \in 0..MaxProcs
    /\ kills \in [Targets -> Nat]
    /\ fs \subseteq Files
    /\ appState \in {"starting", "running", "quit"}

Init ==
    /\ mainWindow = NoWindow
    /\ pythonProcess = NoProcess
    /\ chain = [c \in Chains |-> NoChain]
    /\ procs = [p \in Procs |-> NoProc]
    /\ nspawned = 0
    /\ kills = [t \in Targets |-> 0]
    /\ isPackaged \in BOOLEAN
    \* an installation ships the executable only: the venv and the service
    \* sources are found next to a development checkout
    /\ fs \in IF isPackaged THEN SUBSET {BundledExe} ELSE SUBSET Files
    /\ darwin \in BOOLEAN
    /\ extRunning = FALSE
    /\ appState = "starting"
    /\ serviceUrl = ServiceUrl
    /\ bridge = NoBridge
    /\ trial = NoTrial
    /\ tests = NoTests

\* ---- building blocks of the handlers ----

\* this.mainWindow.webContents.send('service-ready', this.serviceUrl):
\* throws a TypeError when this.mainWindow is null
CanSend == mainWindow # NoWindow

\* startPythonService (with startPythonServiceVenvFallback): spawns the
\* planned artifact and stores the handle, or spawns nothing.  o is the
\* fate of the new process: "live" (running) or "failed" (creation failed,
\* reported by the child's 'error' event, which only logs).
startPythonService(c, o) ==
    IF Started
    THEN /\ nspawned < MaxProcs
         /\ nspawned' = nspawned + 1
         /\ procs' = [procs EXCEPT ![nspawned + 1] =
                         [status |-> o, kind |-> LaunchPlan, by |-> c]]
         /\ pythonProcess' = nspawned + 1
    ELSE UNCHANGED <<procs, nspawned, pythonProcess>>

\* disconnectFromService applied to handle h and kill counts k:
\* the kill counts after it
KillsAfterDisconnect(h, k) ==
    [t \in Targets |-> IF t \in KillTargets(h) THEN k[t] + 1 ELSE k[t]]

\* n calls of disconnectFromService in a row (n is 1 or 2)
disconnectFromService(n) ==
    LET h1 == HandleAfterDisconnect(pythonProcess)
        k1 == KillsAfterDisconnect(pythonProcess, kills)
    IN  IF n = 1
        THEN /\ kills' = k1
             /\ pythonProcess' = h1
        ELSE /\ kills' = KillsAfterDisconnect(h1, k1)
             /\ pythonProcess' = HandleAfterDisconnect(h1)

BaseUrlOtherPort == "http://127.0.0.1:8081"
\* the base URL a request or a notification is built from: this.serviceUrl
BaseUrl == serviceUrl

\* connectToExistingService(maxAttempts) starts: first GET /health issued
StartProbe(ch, mode, max, state) ==
    [ch EXCEPT !.pc = "waiting", !.mode = mode, !.i = 0, !.max = max,
               !.url = BaseUrl,
               !.hist = Append(@, state)]

\* 'service-ready' sent to the window that is this.mainWindow now, the
\* function returns (true)
BecomeReady(ch, r) ==
    [ch EXCEPT !.pc = "ready", !.sent = @ + 1, !.to = mainWindow,
               !.url = BaseUrl,
               !.lastProbe = r,
               !.hist = Append(@, "Ready")]

NextAttemptStuck(ch) == [ch EXCEPT !.pc = "waiting"]
\* the for loop of connectToExistingService moves to attempt i + 1, or the
\* function returns false: autoStartAndConnect then shows the recovery
\* dialog, the dialog's 'Retry Connection' branch just ends
NextAttempt(ch) ==
    IF ch.i + 1 < ch.max
    THEN [ch EXCEPT !.pc = "waiting", !.i = @ + 1]
    ELSE IF ch.mode = "auto"
         THEN [ch EXCEPT !.pc = "dialog", !.i = @ + 1,
                         !.hist = Append(@, "Failed")]
         ELSE [ch EXCEPT !.pc = "done", !.i = @ + 1,
                         !.hist = Append(@, "Failed")]

\* ---- actions ----

\* app.whenReady(): the first window
AppReady ==
    /\ appState = "starting"
    /\ appState' = "running"
    /\ mainWindow' = 1
    /\ chain' = [chain EXCEPT ![1].pc = "created"]
    /\ UNCHANGED <<pythonProcess, procs, nspawned, kills, env, aux, extRunning>>

\* app.on('activate'): a new window when none is open
Activate(w) ==
    /\ appState = "running"
    /\ mainWindow = NoWindow
    /\ chain[w].pc = "idle"
    /\ \A v \in Chains : v < w => chain[v].pc # "idle"
    /\ mainWindow' = w
    /\ chain' = [chain EXCEPT ![w].pc = "created"]
    /\ UNCHANGED <<pythonProcess, procs, nspawned, kills, env, aux, extRunning, appState>>

\* 'ready-to-show' of window w: autoStartAndConnect starts, pre-check issued
ReadyToShow(w) ==
    /\ appState = "running"
    /\ mainWindow = w
    /\ chain[w].pc = "created"
    /\ chain' = [chain EXCEPT ![w].pc = "precheck",
                              ![w].url = BaseUrl,
                              ![w].hist = Append(@, "Probing")]
    /\ UNCHANGED <<mainWindow, pythonProcess, procs, nspawned, kills, env, aux,
                   extRunning, appState>>

\* autoStartAndConnect resumes with the pre-check's outcome r
PrecheckResponse(c, r) ==
    /\ appState = "running"
    /\ chain[c].pc = "precheck"
    /\ r \in HealthResponses
    /\ LET ch == [chain[c] EXCEPT !.lastProbe = r] IN
       IF r # "err" /\ StatusIs200(r) /\ CanSend
       THEN /\ chain' = [chain EXCEPT ![c] = BecomeReady(ch, r)]
            /\ UNCHANGED <<procs, nspawned, pythonProcess>>
       ELSE /\ \E o \in {"live", "failed"} : startPythonService(c, o)
            /\ chain' = [chain EXCEPT ![c] =
                 IF Started
                 THEN StartProbe([ch EXCEPT !.spawns = @ + 1,
                                            !.hist = Append(@, "Launching")],
                                 "auto", PatientAttempts, "WaitingForReady")
                 ELSE [ch EXCEPT !.pc = "dialog",
                                 !.hist = @ \o <<"Launching", "Failed">>]]
    /\ UNCHANGED <<mainWindow, kills, env, aux, extRunning, appState>>

\* connectToExistingService resumes with the outcome r of attempt i
ProbeResponse(c, r) ==
    /\ appState = "running"
    /\ chain[c].pc = "waiting"
    /\ r \in HealthResponses
    /\ LET ch == [chain[c] EXCEPT !.lastProbe = r] IN
       chain' = [chain EXCEPT ![c] =
          IF r # "err" /\ StatusIs200(r)
          THEN IF CanSend THEN BecomeReady(ch, r)
                          ELSE [ch EXCEPT !.pc = "sleep"]
          ELSE IF r # "err" THEN NextAttempt(ch)
                            ELSE [ch EXCEPT !.pc = "sleep"]]
    /\ UNCHANGED <<mainWindow, pythonProcess, procs, nspawned, kills, env, aux,
                   extRunning, appState>>

\* the 1000 ms timer of the catch block fires
TimerFires(c) ==
    /\ appState = "running"
    /\ chain[c].pc = "sleep"
    /\ chain' = [chain EXCEPT ![c] =
                    NextAttempt([chain[c] EXCEPT !.lastProbe = "none"])]
    /\ UNCHANGED <<mainWindow, pythonProcess, procs, nspawned, kills, env, aux,
                   extRunning, appState>>

\* showServiceConnectionOptions resumes with the button the user chose
DialogChoice(c, b) ==
    /\ appState = "running"
    /\ chain[c].pc = "dialog"
    /\ b \in 0..2
    /\ LET ch == [chain[c] EXCEPT !.choice = b] IN
       CASE b = 0 ->
              /\ \E o \in {"live", "failed"} : startPythonService(c, o)
              /\ chain' = [chain EXCEPT ![c] =
                   [ch EXCEPT !.pc = "done",
                              !.spawns = IF Started THEN @ + 1 ELSE @,
                              !.hist = Append(@, "Launching")]]
         [] b = 1 ->
              /\ chain' = [chain EXCEPT ![c] = [ch EXCEPT !.pc = "done"]]
              /\ UNCHANGED <<procs, nspawned, pythonProcess>>
         [] b = 2 ->
              /\ chain' = [chain EXCEPT ![c] =
                   StartProbe(ch, "retry", RetryAttempts, "Probing")]
              /\ UNCHANGED <<procs, nspawned, pythonProcess>>
    /\ UNCHANGED <<mainWindow, kills, env, aux, extRunning, appState>>

\* the window is closed: 'closed' handler, then 'window-all-closed', which
\* calls disconnectFromService and, off macOS, app.quit(), whose
\* 'before-quit' calls disconnectFromService again
CloseWindow ==
    /\ appState = "running"
    /\ mainWindow # NoWindow
    /\ mainWindow' = NoWindow
    /\ disconnectFromService(IF darwin THEN 1 ELSE 2)
    /\ appState' = IF darwin THEN "running" ELSE "quit"
    /\ UNCHANGED <<chain, procs, nspawned, env, aux, extRunning>>

\* app.quit() from the menu: 'before-quit', then the windows close
Quit ==
    /\ appState = "running"
    /\ disconnectFromService(1)
    /\ mainWindow' = NoWindow
    /\ appState' = "quit"
    /\ UNCHANGED <<chain, procs, nspawned, env, aux, extRunning>>

\* a running child process ends; its 'exit' handler only logs
ProcessExit(p) ==
    /\ Live(p)
    /\ procs' = [procs EXCEPT ![p].status = "exited"]
    /\ UNCHANGED <<mainWindow, pythonProcess, chain, nspawned, kills, env, aux,
                   extRunning, appState>>

\* the user starts a backend by hand
ManualStart ==
    /\ appState # "quit"
    /\ ~extRunning
    /\ extRunning' = TRUE
    /\ UNCHANGED <<mainWindow, pythonProcess, chain, procs, nspawned, kills,
                   env, aux, appState>>

Next ==
    \/ AppReady
    \/ \E w \in Chains : Activate(w)
    \/ \E w \in Chains : ReadyToShow(w)
    \/ \E c \in Chains, r \in Responses : PrecheckResponse(c, r)
    \/ \E c \in Chains, r \in Responses : ProbeResponse(c, r)
    \/ \E c \in Chains : TimerFires(c)
    \/ \E c \in Chains, b \in 0..2 : DialogChoice(c, b)
    \/ CloseWindow
    \/ Quit
    \/ \E p \in Procs : ProcessExit(p)
    \/ ManualStart

Spec == Init /\ [][Next]_vars

\* ---- the UI-facing bridge: ipcMain handlers behind preload.js ----

\* channels of ipcRenderer.invoke; the preconfigured api methods of
\* preload.js all invoke 'api-call'
NetOps == {"api-call", "upload-file"}
BridgeOps == NetOps \cup {"select-file"}

\* some chain has reached Ready
ConnectionReady == \E c \in Chains : State(c) = "Ready"

\* a backend is listening on the endpoint
Listening == extRunning \/ (\E p \in Procs : Live(p))

\* how the awaited call of a handler can end:
\*   resolved  - axios resolved (status 2xx)
\*   httpError - axios rejected with a response (status outside 2xx)
\*   netError  - axios rejected without a response (refused, timeout)
\*   picked, canceled - the open-file dialog was closed
Outcomes(op) ==
    IF op = "select-file"
    THEN {"picked", "canceled"}
    ELSE IF Listening THEN {"resolved", "httpError", "netError"}
                      ELSE {"netError"}

\* what ipcRenderer.invoke settles with
Success ==
    [settled |-> "fulfilled", success |-> "true", data |-> "present",
     error |-> "absent", status |-> "absent"]
Failure(status) ==
    [settled |-> "fulfilled", success |-> "false", data |-> "absent",
     error |-> "message", status |-> status]
Rejected ==
    [settled |-> "rejected", success |-> "absent", data |-> "absent",
     error |-> "message", status |-> "absent"]
Selected(path) ==
    [settled |-> "fulfilled", success |-> "absent", data |-> path,
     error |-> "absent", status |-> "absent"]

apiCallResultUncaught(outcome) ==
    IF outcome = "resolved" THEN Success ELSE Rejected
\* return value of the 'api-call' handler
apiCallResult(outcome) ==
    IF outcome = "resolved"
    THEN Success
    ELSE Failure(IF outcome = "httpError" THEN "code" ELSE "undefined")

\* return value of the 'upload-file' handler; outcome "threw" is a
\* synchronous throw of the try block (fs.createReadStream of a bad path)
uploadFileResult(outcome) ==
    IF outcome = "resolved" THEN Success ELSE Failure("absent")

\* return value of the 'select-file' handler
selectFileResult(outcome) ==
    IF outcome = "canceled" THEN Selected("null") ELSE Selected("path")

HandlerResult(op, outcome) ==
    CASE op = "api-call" -> apiCallResult(outcome)
      [] op = "upload-file" -> uploadFileResult(outcome)
      [] op = "select-file" -> selectFileResult(outcome)

BridgeFrameDropsHandle ==
    /\ pythonProcess' = NoProcess
    /\ UNCHANGED <<mainWindow, chain, procs, nspawned, kills, env,
                   extRunning, appState>>
\* what the three handlers leave alone: they assign no field
BridgeFrame ==
    UNCHANGED <<mainWindow, pythonProcess, chain, procs, nspawned, kills,
                env, extRunning, appState>>

\* the renderer invokes a handler; the handler runs up to its await, or to
\* the catch block when the try block throws before the await
BridgeInvoke(op, arg) ==
    /\ appState = "running"
    /\ mainWindow # NoWindow
    /\ bridge.pc # "awaiting"
    /\ op \in BridgeOps
    /\ arg \in {"valid", "invalid"}
    /\ arg = "invalid" => op = "upload-file"
    /\ bridge' =
         IF arg = "invalid"
         THEN [pc |-> "returned", op |-> op, ready |-> ConnectionReady,
               url |-> "none",
               outcome |-> "threw", result |-> HandlerResult(op, "threw")]
         ELSE [pc |-> "awaiting", op |-> op, ready |-> ConnectionReady,
               url |-> IF op \in NetOps THEN BaseUrl ELSE "none",
               outcome |-> "none", result |-> "none"]
    /\ BridgeFrame
    /\ UNCHANGED <<trial, tests>>

\* the awaited call ends and the handler returns
BridgeResponse(outcome) ==
    /\ appState = "running"
    /\ bridge.pc = "awaiting"
    /\ outcome \in Outcomes(bridge.op)
    /\ bridge' = [bridge EXCEPT !.pc = "returned", !.outcome = outcome,
                                !.result = HandlerResult(bridge.op, outcome)]
    /\ BridgeFrame
    /\ UNCHANGED <<trial, tests>>

\* the first window's lifetime with the UI calling the bridge
NextBridge ==
    \/ AppReady
    \/ \E w \in Chains : ReadyToShow(w)
    \/ \E c \in Chains, r \in Responses : PrecheckResponse(c, r)
    \/ \E c \in Chains, r \in Responses : ProbeResponse(c, r)
    \/ \E c \in Chains : TimerFires(c)
    \/ \E c \in Chains, b \in 0..2 : DialogChoice(c, b)
    \/ CloseWindow
    \/ Quit
    \/ \E p \in Procs : ProcessExit(p)
    \/ ManualStart
    \/ \E op \in BridgeOps, arg \in {"valid", "invalid"} : BridgeInvoke(op, arg)
    \/ \E o \in {"resolved", "httpError", "netError", "picked", "canceled"} :
          BridgeResponse(o)

SpecBridge == Init /\ [][NextBridge]_vars

\* ---- connectToExistingService and the test script's helper, as functions ----

\* connectToExistingService(maxAttempts) from loop index i on, after s
\* sleeps.  resp[k] is the outcome of the k-th GET /health, open[k] tells
\* whether this.mainWindow is non-null when that response is handled: with a
\* null window the send throws inside the try and the catch block sleeps.
RECURSIVE ConnectLoop(_, _, _, _, _)
ConnectLoop(i, s, maxAttempts, resp, open) ==
    IF i >= maxAttempts
    THEN [result |-> FALSE, attempts |-> i, sleeps |-> s]
    ELSE LET r == resp[i + 1] IN
         IF r # "err" /\ StatusIs200(r)
         THEN IF open[i + 1]
              THEN [result |-> TRUE, attempts |-> i + 1, sleeps |-> s]
              ELSE ConnectLoop(i + 1, s + 1, maxAttempts, resp, open)
         ELSE IF r # "err"
              THEN ConnectLoop(i + 1, s, maxAttempts, resp, open)
              ELSE ConnectLoop(i + 1, s + 1, maxAttempts, resp, open)

connectToExistingService(maxAttempts, resp, open) ==
    ConnectLoop(0, 0, maxAttempts, resp, open)

\* testServiceConnection(url, maxAttempts) of the test script: no window,
\* no sleep after the last attempt
RECURSIVE TestLoop(_, _, _, _)
TestLoop(i, s, maxAttempts, resp) ==
    IF i >= maxAttempts
    THEN [result |-> FALSE, attempts |-> i, sleeps |-> s]
    ELSE LET r == resp[i + 1] IN
         IF r # "err" /\ StatusIs200(r)
         THEN [result |-> TRUE, attempts |-> i + 1, sleeps |-> s]
         ELSE IF r # "err"
              THEN TestLoop(i + 1, s, maxAttempts, resp)
              ELSE TestLoop(i + 1,
                            IF i < maxAttempts - 1 THEN s + 1 ELSE s,
                            maxAttempts, resp)

testServiceConnection(maxAttempts, resp) == TestLoop(0, 0, maxAttempts, resp)

\* the time n health requests took: a request that is late ends at its
\* timeout, any other is counted as answered at once
RECURSIVE RequestTime(_, _)
RequestTime(n, late) ==
    IF n = 0 THEN 0
    ELSE RequestTime(n - 1, late) + (IF late[n] THEN ProbeTimeout ELSE 0)

\* the time a run with the outcome o took: its requests and its sleeps
RunTime(o, late) == RequestTime(o.attempts, late) + o.sleeps * PollInterval

\* the inputs of a trial: a number of attempts, the health outcomes in the
\* order the requests are made, the window's presence at each response and
\* whether each request ran into its timeout
TrialInputs ==
    [max : 1..MaxTrialAttempts,
     resp : [1..MaxTrialAttempts -> Responses],
     open : [1..MaxTrialAttempts -> BOOLEAN],
     late : [1..MaxTrialAttempts -> BOOLEAN],
     done : {FALSE}, connect : {"none"}, test : {"none"}]

InitTrial ==
    /\ mainWindow = NoWindow
    /\ pythonProcess = NoProcess
    /\ chain = [c \in Chains |-> NoChain]
    /\ procs = [p \in Procs |-> NoProc]
    /\ nspawned = 0
    /\ kills = [t \in Targets |-> 0]
    /\ isPackaged = FALSE
    /\ fs = {}
    /\ darwin = FALSE
    /\ extRunning = FALSE
    /\ appState = "starting"
    /\ serviceUrl = ServiceUrl
    /\ bridge = NoBridge
    /\ trial \in TrialInputs
    /\ tests = NoTests

\* both functions run to their return on the trial's inputs
TrialRun ==
    /\ ~trial.done
    /\ trial' = [trial EXCEPT
                   !.done = TRUE,
                   !.connect = connectToExistingService(trial.max, trial.resp,
                                                        trial.open),
                   !.test = testServiceConnection(trial.max, trial.resp)]
    /\ UNCHANGED <<mainWindow, pythonProcess, chain, procs, nspawned, kills,
                   env, extRunning, appState, bridge, tests>>

NextTrial == TrialRun

SpecTrial == InitTrial /\ [][NextTrial]_vars

\* ---- the test script: runTests of setup-dev.sh ----

Phases == {"bundled", "venv"}

\* what the test script looks for, relative to the project root
DistDir == "python-dist"
DistExe == "python-dist/covenantrix-service"
VenvDir == "venv"
VenvExe == "venv/bin/python"
TestFiles == {DistDir, DistExe, VenvDir, VenvExe}

\* the phase's directory check of runTests and the file check of the test
\* script's startPythonService(useVenv) both pass
CanStart(files, ph) ==
    IF ph = "venv"
    THEN VenvDir \in files /\ VenvExe \in files
    ELSE DistDir \in files /\ DistExe \in files

KillOnCleanupNever(p) == FALSE
\* 'if (bundledProcess)' / 'if (venvProcess)': the clean-up sends kill to a
\* process that was spawned
KillOnCleanup(p) == p.status # "none"

\* a backend answers the test script's health requests
TestListening ==
    tests.ext \/ (\E ph \in Phases : tests.proc[ph].status = "live")

\* Phase 3 from its start: spawn and sleep, or straight to the summary
EnterVenv(t, o) ==
    IF CanStart(t.fs, "venv")
    THEN [t EXCEPT !.pc = "starting", !.phase = "venv",
                   !.proc["venv"] = [status |-> o, kills |-> 0]]
    ELSE [t EXCEPT !.pc = "summary", !.phase = "venv"]

\* Phase 2 from its start: spawn and sleep, or on to Phase 3 (the clean-up
\* of a process that is null does nothing)
EnterBundled(t, o) ==
    IF CanStart(t.fs, "bundled")
    THEN [t EXCEPT !.pc = "starting", !.phase = "bundled",
                   !.proc["bundled"] = [status |-> o, kills |-> 0]]
    ELSE EnterVenv(t, o)

TestsFrame ==
    UNCHANGED <<mainWindow, pythonProcess, chain, procs, nspawned, kills,
                env, extRunning, appState, bridge, trial>>

\* runTests starts: Phase 1, then Phase 2 up to the first await
TestsBegin(o) ==
    /\ tests.pc = "begin"
    /\ tests' = EnterBundled(tests, o)
    /\ TestsFrame

\* sleep(3000) of startPythonService ends, testServiceConnection starts
TestsStarted ==
    /\ tests.pc = "starting"
    /\ tests.proc[tests.phase].status # "failed"
    /\ tests' = [tests EXCEPT !.pc = "testing"]
    /\ TestsFrame

\* the child's 'error' event has no listener: the script ends with an
\* uncaught exception
TestsChildError ==
    /\ tests.pc = "starting"
    /\ tests.proc[tests.phase].status = "failed"
    /\ tests' = [tests EXCEPT !.pc = "crashed"]
    /\ TestsFrame

\* testServiceConnection returns for the health outcomes resp; the phase's
\* clean-up runs up to its sleep(2000)
TestsProbed(resp) ==
    /\ tests.pc = "testing"
    /\ \A k \in DOMAIN resp : ~TestListening => resp[k] = "err"
    /\ LET ph == tests.phase
           p == tests.proc[ph]
       IN tests' = [tests EXCEPT
             !.pc = "cleaning",
             !.working[ph] = testServiceConnection(MaxTrialAttempts, resp).result,
             !.proc[ph].kills = IF KillOnCleanup(p) THEN @ + 1 ELSE @]
    /\ TestsFrame

\* sleep(2000) of the clean-up ends: Phase 3, or the summary
TestsCleaned(o) ==
    /\ tests.pc = "cleaning"
    /\ tests' = IF tests.phase = "bundled"
                THEN EnterVenv(tests, o)
                ELSE [tests EXCEPT !.pc = "summary"]
    /\ TestsFrame

\* a child of the test script ends by itself
TestsChildExit(ph) ==
    /\ tests.pc \notin {"off", "crashed"}
    /\ tests.proc[ph].status = "live"
    /\ tests' = [tests EXCEPT !.proc[ph].status = "exited"]
    /\ TestsFrame

TestInputs ==
    {[NoTests EXCEPT !.pc = "begin", !.fs = f, !.ext = e] :
        f \in {g \in SUBSET TestFiles :
                 /\ DistExe \in g => DistDir \in g
                 /\ VenvExe \in g => VenvDir \in g},
        e \in BOOLEAN}

InitTests ==
    /\ mainWindow = NoWindow
    /\ pythonProcess = NoProcess
    /\ chain = [c \in Chains |-> NoChain]
    /\ procs = [p \in Procs |-> NoProc]
    /\ nspawned = 0
    /\ kills = [t \in Targets |-> 0]
    /\ isPackaged = FALSE
    /\ fs = {}
    /\ darwin = FALSE
    /\ extRunning = FALSE
    /\ appState = "starting"
    /\ serviceUrl = ServiceUrl
    /\ bridge = NoBridge
    /\ trial = NoTrial
    /\ tests \in TestInputs

NextTests ==
    \/ \E o \in {"live", "failed"} : TestsBegin(o)
    \/ TestsStarted
    \/ TestsChildError
    \/ \E resp \in [1..MaxTrialAttempts -> Responses] : TestsProbed(resp)
    \/ \E o \in {"live", "failed"} : TestsCleaned(o)
    \/ \E ph \in Phases : TestsChildExit(ph)

SpecTests == InitTests /\ [][NextTests]_vars

\* ---- vocabulary of the claims ----

\* neither the bundled artifact nor the fallback prerequisites exist
NoArtifacts ==
    /\ ~FileExists(BundledExe)
    /\ ~(FileExists(VenvPython) /\ FileExists(ServiceScript))

\* this step ran disconnectFromService ('window-all-closed' or 'before-quit')
DisconnectStep ==
    \/ mainWindow # NoWindow /\ mainWindow' = NoWindow
    \/ appState = "running" /\ appState' = "quit"

\* this step handled a health response with status 200 in chain c
Got200(c) ==
    /\ chain[c].pc \in {"precheck", "waiting"}
    /\ chain'[c] # chain[c]
    /\ chain'[c].lastProbe = "ok200"

\* a spawned process that is running and was never sent kill
Running(p) == Live(p) /\ kills[p] = 0

\* ---- C1 ----
\* C1: every send of 'service-ready' happens in the step that handles a
\* health response with status 200 of the same chain, the pre-check or an
\* attempt of connectToExistingService, and takes the chain to Ready.
Thm_C1 ==
    [][\A c \in Chains :
         chain'[c].sent > chain[c].sent =>
            /\ chain[c].pc \in {"precheck", "waiting"}
            /\ chain'[c].lastProbe = "ok200"
            /\ chain'[c].sent = chain[c].sent + 1
            /\ chain'[c].pc = "ready"
            /\ State(c)' = "Ready"]_vars

Wit_C1 ==
    \E c \in Chains :
        /\ chain[c].pc = "ready"
        /\ chain[c].sent = 1
        /\ chain[c].mode = "auto"
        /\ chain[c].i > 0

\* ---- C2 ----
\* C2: when the pre-check receives status 200 the chain spawns no process
\* and leaves pythonProcess unchanged (the safety part of the claim: no
\* launch after a successful pre-check).
CE_C2 ==
    [][\A c \in Chains :
         (chain[c].pc = "precheck" /\ Got200(c)) =>
            /\ chain'[c].spawns = 0
            /\ nspawned' = nspawned
            /\ pythonProcess' = pythonProcess]_vars

\* ---- C3 ----
\* C3: when the owned child exits after 'service-ready' was sent, the chain
\* that was Ready moves to Failed and shows the recovery dialog again.
CE_C3 ==
    [][\A p \in Procs, c \in Chains :
         (/\ Live(p) /\ procs'[p].status = "exited"
          /\ pythonProcess = p /\ procs[p].by = c
          /\ chain[c].pc = "ready") =>
            /\ chain'[c].pc = "dialog"
            /\ State(c)' = "Failed"]_vars

\* ---- C4 ----
\* C4: at most one process spawned by the orchestrator is running at any
\* moment (a process that was sent kill does not count).
CE_C4 == Cardinality({p \in Procs : Running(p)}) <= 1

\* ---- C5 ----
\* C5: kill is only ever sent to a process this application spawned; as
\* long as nothing was spawned pythonProcess is null and no kill was sent.
Thm_C5 ==
    /\ \A t \in Targets : kills[t] > 0 => (t \in Procs /\ t <= nspawned)
    /\ pythonProcess # NoProcess => pythonProcess <= nspawned
    /\ nspawned = 0 =>
          (pythonProcess = NoProcess /\ \A t \in Targets : kills[t] = 0)

Wit_C5 ==
    \E c \in Chains :
        /\ chain[c].hist = <<"Idle", "Probing", "Ready">>
        /\ extRunning
        /\ nspawned = 0
        /\ appState = "quit"

\* ---- C6 ----
\* C6: at most one launch/probe chain is in progress at any time.
CE_C6 == Cardinality({c \in Chains : InProgress(c)}) <= 1

\* ---- C7 ----
\* C7: after a failed pre-check with the bundled artifact present, a patient
\* attempt that receives 200 takes the chain to Ready along Idle, Probing,
\* Launching, WaitingForReady with one spawn and one 'service-ready'; a later
\* disconnectFromService kills the spawned process; exhaustion ends in
\* Failed with no 'service-ready'.
CE_C7 ==
    [][\A c \in Chains :
         /\ (chain[c].mode = "auto" /\ LaunchPlan = "bundled" /\ Got200(c)) =>
               /\ chain'[c].pc = "ready"
               /\ chain'[c].hist = <<"Idle", "Probing", "Launching",
                                     "WaitingForReady", "Ready">>
               /\ chain'[c].spawns = 1
               /\ chain'[c].sent = 1
         /\ (chain[c].mode = "auto" /\ chain[c].pc = "ready" /\ DisconnectStep) =>
               \A p \in Procs : procs[p].by = c => kills'[p] > 0
         /\ (chain[c].mode = "auto" /\ chain[c].pc \in {"waiting", "sleep"}
                /\ chain'[c].pc = "dialog") =>
               (chain'[c].sent = 0 /\ State(c)' = "Failed")]_vars

\* ---- C8 ----
\* C8: each recovery option re-enters the state machine and runs its step:
\* after 'Start Service Automatically' the chain has launched and a
\* readiness probe is in flight, after 'Retry Connection' a probe is in
\* flight.
CE_C8 ==
    [][\A c \in Chains :
         /\ (chain[c].pc = "dialog" /\ chain'[c].choice = 0 /\ Started) =>
               (chain'[c].pc = "waiting" /\ nspawned' = nspawned + 1)
         /\ (chain[c].pc = "dialog" /\ chain'[c].choice = 2) =>
               (chain'[c].pc = "waiting" /\ nspawned' = nspawned)]_vars

\* ---- C9 ----
\* C9: after a venv launch whose patient probe was exhausted, the process
\* that was spawned is not running any more when the recovery dialog
\* launches again.
CE_C9 ==
    [][\A c \in Chains :
         (/\ chain[c].pc = "dialog" /\ chain'[c].pc = "done"
          /\ LaunchPlan = "venv"
          /\ nspawned' > nspawned) =>
            \A p \in Procs : procs[p].by = c => ~Running(p)]_vars

\* ---- C10 ----
\* C10: when the pre-check fails and neither the bundled artifact nor the
\* fallback prerequisites exist, the launch step spawns nothing, leaves
\* pythonProcess null and goes Launching -> Failed, where the recovery
\* dialog waits for the user.
Thm_C10 ==
    [][\A c \in Chains :
         (/\ chain[c].pc = "precheck"
          /\ chain'[c].pc \notin {"precheck", "ready"}
          /\ NoArtifacts) =>
            /\ nspawned' = nspawned /\ nspawned = 0
            /\ procs' = procs
            /\ pythonProcess = NoProcess /\ pythonProcess' = NoProcess
            /\ chain'[c].spawns = 0
            /\ chain'[c].pc = "dialog"
            /\ chain'[c].hist = <<"Idle", "Probing", "Launching", "Failed">>]_vars

Wit_C10 ==
    \E c \in Chains :
        /\ NoArtifacts
        /\ chain[c].pc = "dialog"
        /\ chain[c].hist = <<"Idle", "Probing", "Launching", "Failed">>
        /\ nspawned = 0

\* ---- C11 ----
\* the recovery dialog of chain c is on screen (showMessageBox is awaited)
DialogOpen(c) == chain[c].pc = "dialog"

\* number of recovery dialogs chain c has shown so far
DialogsShown(c) ==
    IF DialogOpen(c) \/ chain[c].choice # -1 THEN 1 ELSE 0

\* number of times chain c entered Failed
FailedCount(c) ==
    Cardinality({k \in DOMAIN chain[c].hist : chain[c].hist[k] = "Failed"})

\* C11: every entry of a chain into Failed shows one recovery dialog: the
\* number of dialogs a chain has shown equals the number of times it
\* entered Failed.
CE_C11 == \A c \in Chains : FailedCount(c) = DialogsShown(c)

\* ---- C12 ----
\* C12: a call of 'api-call' or 'upload-file' made before any chain reached
\* Ready issues no network request: it is never awaiting a response and
\* never ends with the outcome of a request.
CE_C12 ==
    (bridge.op \in NetOps /\ ~bridge.ready) =>
        /\ bridge.pc # "awaiting"
        /\ bridge.outcome \notin {"resolved", "httpError", "netError"}

\* ---- C13 ----
\* C13: every call of 'api-call' or 'upload-file' that returned is settled
\* with a structured object: {success: true, data} exactly when the request
\* resolved, otherwise {success: false, error} with an optional status; the
\* promise is never rejected.
Thm_C13 ==
    (bridge.pc = "returned" /\ bridge.op \in NetOps) =>
        /\ bridge.result.settled = "fulfilled"
        /\ bridge.outcome = "resolved" => bridge.result = Success
        /\ bridge.outcome # "resolved" =>
              /\ bridge.result.success = "false"
              /\ bridge.result.error = "message"
              /\ bridge.result.data = "absent"
              /\ bridge.result.status \in {"absent", "undefined", "code"}

Wit_C13 ==
    /\ bridge.pc = "returned"
    /\ bridge.op = "api-call"
    /\ bridge.outcome = "httpError"
    /\ bridge.result = Failure("code")

\* ---- C14 ----
\* C14: a step of the bridge (invoke or return of selectFile, uploadFile,
\* apiCall) changes neither the connection state nor the process handle:
\* chains, processes, spawn and kill counts, pythonProcess, serviceUrl, the
\* window and the application state stay as they were.
Thm_C14 ==
    [][bridge' # bridge =>
         UNCHANGED <<chain, procs, nspawned, kills, pythonProcess, serviceUrl,
                     mainWindow, appState>>]_vars

Wit_C14 ==
    /\ bridge.pc = "returned"
    /\ bridge.op = "upload-file"
    /\ bridge.outcome = "netError"
    /\ pythonProcess # NoProcess
    /\ Running(pythonProcess)
    /\ ConnectionReady

\* ---- C15 ----
\* C15: whatever the order and number of window-all-closed and before-quit
\* events, no spawned process is sent kill more than once, and a step that
\* runs disconnectFromService while pythonProcess is null sends no kill and
\* changes neither the handle nor any process or chain.
Thm_C15 ==
    [][/\ \A p \in Procs : kills'[p] <= 1
       /\ (DisconnectStep /\ pythonProcess = NoProcess) =>
             /\ kills' = kills
             /\ pythonProcess' = NoProcess
             /\ UNCHANGED <<procs, nspawned, chain>>]_vars

Wit_C15 ==
    /\ darwin
    /\ appState = "quit"
    /\ \E c \in Chains : c > 1 /\ chain[c].pc # "idle"
    /\ \E p \in Procs : kills[p] = 1

\* ---- C16 ----
\* the attempts among the first maxAttempts that were answered with 200
Successes == {k \in 1..trial.max : trial.resp[k] = "ok200"}

\* C16: connectToExistingService returns true exactly when one of its
\* maxAttempts attempts is answered with 200, having made no attempt after
\* the first such answer, and false after maxAttempts attempts otherwise;
\* testServiceConnection returns the same on the same responses.
CE_C16 ==
    (trial.done /\ trial.max > 0) =>
        /\ trial.connect.result = (Successes # {})
        /\ trial.connect.attempts =
              IF Successes = {} THEN trial.max
              ELSE CHOOSE k \in Successes : \A j \in Successes : k <= j
        /\ trial.test.result = trial.connect.result

\* ---- C17 ----
\* this step called startPythonService in chain c
LaunchStep(c) ==
    /\ Len(chain'[c].hist) > Len(chain[c].hist)
    /\ \E k \in (Len(chain[c].hist) + 1)..Len(chain'[c].hist) :
          chain'[c].hist[k] = "Launching"

\* C17 as stated: in every launch getPythonExecutablePath returns null or a
\* path that exists on disk.
CE_C17 ==
    [][\A c \in Chains :
         LaunchStep(c) =>
            \/ getPythonExecutablePath = NULL
            \/ FileExists(getPythonExecutablePath)]_vars

\* C17 amended: in a development checkout getPythonExecutablePath returns
\* null or a path that exists; in an installation it returns the path of the
\* bundled executable unchecked, and startPythonService checks it: a launch
\* with the executable missing spawns nothing, and a bundled process is
\* only ever spawned from a path that exists.
Thm_C17 ==
    [][\A c \in Chains :
         LaunchStep(c) =>
            /\ ~isPackaged => \/ getPythonExecutablePath = NULL
                              \/ FileExists(getPythonExecutablePath)
            /\ isPackaged => getPythonExecutablePath = BundledExe
            /\ (isPackaged /\ ~FileExists(BundledExe)) =>
                  (nspawned' = nspawned /\ pythonProcess' = pythonProcess)
            /\ (nspawned' > nspawned /\ procs'[nspawned'].kind = "bundled") =>
                  FileExists(getPythonExecutablePath)]_vars

Wit_C17 ==
    \E c \in Chains :
        /\ isPackaged
        /\ ~FileExists(BundledExe)
        /\ "Launching" \in {chain[c].hist[k] : k \in DOMAIN chain[c].hist}
        /\ chain[c].spawns = 0
        /\ chain[c].pc = "dialog"

\* ---- C18 ----
\* C18: every spawn of a chain comes after a health probe of that chain,
\* and the last answer the chain received before the spawn was not a 200.
CE_C18 ==
    [][\A c \in Chains :
         chain'[c].spawns > chain[c].spawns =>
            /\ "Probing" \in {chain[c].hist[k] : k \in DOMAIN chain[c].hist}
            /\ chain'[c].lastProbe # "ok200"]_vars

\* ---- C19 ----
\* C19: a launch spawns the venv interpreter only when
\* getPythonExecutablePath returned null and the bundled executable is
\* absent, and a launch made while the bundled executable exists spawns
\* one process, the bundled executable, and stores its handle.
Thm_C19 ==
    [][\A c \in Chains :
         /\ (LaunchStep(c) /\ nspawned' > nspawned
                /\ procs'[nspawned'].kind = "venv") =>
               (getPythonExecutablePath = NULL /\ ~FileExists(BundledExe))
         /\ (LaunchStep(c) /\ FileExists(BundledExe)) =>
               /\ nspawned' = nspawned + 1
               /\ procs'[nspawned'].kind = "bundled"
               /\ pythonProcess' = nspawned']_vars

Wit_C19 ==
    /\ fs = Files
    /\ ~isPackaged
    /\ nspawned > 0
    /\ \A p \in Procs : p <= nspawned => procs[p].kind = "bundled"

\* ---- C20 ----
\* C20: a window's UI is sent 'service-ready' at most once: no two chains
\* have sent it to the same window.
CE_C20 ==
    \A w \in Chains :
        Cardinality({c \in Chains : chain[c].sent > 0 /\ chain[c].to = w}) <= 1

\* ---- C21 ----
\* this step spawned a process for chain c whose creation failed (the
\* child's 'error' event will be delivered)
SpawnFailure(c) ==
    /\ chain'[c].spawns > chain[c].spawns
    /\ procs'[nspawned'].status = "failed"

\* C21: a launch whose process creation fails takes the chain to Failed and
\* to the recovery dialog, as a launch with no artifact does, and not to
\* WaitingForReady.
CE_C21 ==
    [][\A c \in Chains :
         SpawnFailure(c) =>
            /\ chain'[c].pc = "dialog"
            /\ State(c)' = "Failed"]_vars

\* ---- C22 ----
\* why chain c is in Failed: the launched process never became reachable,
\* or nothing could be launched
FailureKind(c) ==
    IF "WaitingForReady" \in {chain[c].hist[k] : k \in DOMAIN chain[c].hist}
    THEN "ReadinessTimeout"
    ELSE "ArtifactNotFound"

\* the message of the recovery dialog shown for a failure of the given
\* kind: showServiceConnectionOptions takes no argument
DialogMessage(kind) ==
    "Cannot connect to the Covenantrix Python service at 127.0.0.1:8080."

\* C22: the recovery dialog of a chain that failed by ReadinessTimeout
\* carries a message different from the one shown for ArtifactNotFound.
CE_C22 ==
    \A c \in Chains :
        (DialogOpen(c) /\ FailureKind(c) = "ReadinessTimeout") =>
            DialogMessage(FailureKind(c)) # DialogMessage("ArtifactNotFound")

\* ---- C23 ----
\* this step handled a health response with a 2xx status in chain c
Got2xx(c) ==
    /\ chain[c].pc \in {"precheck", "waiting"}
    /\ chain'[c] # chain[c]
    /\ chain'[c].lastProbe \in {"ok200", "other2xx"}

\* C23: with the window open, a health response with any 2xx status, to
\* the pre-check or to an attempt of connectToExistingService, takes the
\* chain to Ready.
CE_C23 ==
    [][\A c \in Chains :
         (Got2xx(c) /\ CanSend) =>
            (chain'[c].pc = "ready" /\ chain'[c].sent = chain[c].sent + 1)]_vars

CE_C25 ==
    [][\A c \in Chains :
         (/\ chain[c].pc # "dialog" /\ chain'[c].pc = "dialog"
          /\ FileExists(BundledExe) /\ VenvPrereqsOk) =>
            \E p \in Procs : procs'[p].by = c /\ procs'[p].kind = "venv"]_vars

\* ---- C26 ----
\* C26: serviceUrl always has the value the constructor gave it, and every
\* health probe, every request of the bridge and every 'service-ready'
\* notification was built from http://127.0.0.1:8080.
Thm_C26 ==
    /\ serviceUrl = "http://127.0.0.1:8080"
    /\ \A c \in Chains : chain[c].url \in {"none", "http://127.0.0.1:8080"}
    /\ \A c \in Chains : Len(chain[c].hist) > 1 =>
                            chain[c].url = "http://127.0.0.1:8080"
    /\ bridge.url \in {"none", "http://127.0.0.1:8080"}
    /\ (bridge.pc = "awaiting" /\ bridge.op \in NetOps) =>
          bridge.url = "http://127.0.0.1:8080"

Wit_C26 ==
    /\ bridge.pc = "returned"
    /\ bridge.op = "api-call"
    /\ bridge.url = serviceUrl
    /\ \E c \in Chains :
          /\ chain[c].sent = 1
          /\ chain[c].url = serviceUrl
          /\ chain[c].spawns = 1

\* ---- C27 ----
\* C27: once the process of the venv phase is spawned, the process of the
\* bundled phase, if one was spawned, has been sent kill; and when the
\* summary is printed every process the test spawned has been sent kill.
Thm_C27 ==
    /\ (tests.proc["venv"].status # "none"
          /\ tests.proc["bundled"].status # "none") =>
             tests.proc["bundled"].kills > 0
    /\ tests.pc = "summary" =>
          \A ph \in Phases :
              tests.proc[ph].status # "none" => tests.proc[ph].kills > 0

Wit_C27 ==
    /\ tests.pc = "summary"
    /\ tests.proc["bundled"].status = "live"
    /\ tests.proc["venv"].status # "none"
    /\ ~tests.working["bundled"]
    /\ tests.working["venv"]

\* ---- C28 ----
\* C28: every spawned process that is running and was never sent kill is
\* the one pythonProcess refers to, and once the application has quit no
\* spawned process is running without having been sent kill.
CE_C28 ==
    /\ \A p \in Procs : Running(p) => pythonProcess = p
    /\ appState = "quit" => \A p \in Procs : ~Running(p)

\* ---- C29 ----
\* C29: whenever pythonProcess is non-null the process it refers to has
\* not exited: the handle is released in the step that delivers 'exit'.
CE_C29 ==
    pythonProcess # NoProcess => procs[pythonProcess].status # "exited"

\* ---- C30 ----
\* the invocation of autoStartAndConnect of chain c has returned
Terminated(c) == chain[c].pc \in {"ready", "done"}

\* how far the invocation of chain c has come: every step of the chain
\* moves it forward
DialogRank == 2 * PatientAttempts + 3
FinalRank == DialogRank + 2 * RetryAttempts + 1
Measure(c) ==
    LET ch == chain[c]
        loop == 2 * ch.i + (IF ch.pc = "sleep" THEN 1 ELSE 0)
    IN  CASE ch.pc = "idle" -> 0
          [] ch.pc = "created" -> 1
          [] ch.pc = "precheck" -> 2
          [] ch.pc \in {"waiting", "sleep"} /\ ch.mode = "auto" -> 3 + loop
          [] ch.pc = "dialog" -> DialogRank
          [] ch.pc \in {"waiting", "sleep"} /\ ch.mode = "retry" ->
                DialogRank + 1 + loop
          [] ch.pc \in {"ready", "done"} -> FinalRank

CE_C31 ==
    [][\A c \in Chains :
         Got200(c) =>
            /\ chain'[c].pc = "ready"
            /\ State(c)' = "Ready"
            /\ chain'[c].spawns = chain[c].spawns]_vars

\* ---- C32 ----
\* chain c has started and has returned or is suspended in the dialog
Settled(c) == chain[c].pc \in {"dialog", "ready", "done"}

\* C32: no silent dead end: while the window of a chain is the current
\* window, the chain has no probe or launch in progress and has sent no
\* 'service-ready', its recovery dialog is open.
CE_C32 ==
    \A c \in Chains :
        (/\ appState = "running"
         /\ mainWindow = c
         /\ Settled(c)
         /\ chain[c].sent = 0) => DialogOpen(c)

\* ---- C33 ----
\* every window is closed and the application is still running
\* ('window-all-closed' on macOS does not quit)
Windowless == appState = "running" /\ mainWindow = NoWindow

\* C33: from the step that closes the last window until a new window is
\* created, no process spawned by the application is running, and no chain
\* spawns one.
CE_C33 ==
    [][Windowless' =>
          /\ \A p \in Procs : ~Running(p)'
          /\ Windowless => nspawned' = nspawned]_vars

====
